---- MODULE Spec2Model ----
(***************************************************************************)
(* gdal-traits: the tri-state FieldResult, its required / optional typed   *)
(* conversions (src/src/feature.rs, try_into!), and the two decoding entry *)
(* points of FeatureTrait, from_feature and from_layer.                    *)
(*                                                                         *)
(* ConvSpec  : the conversions applied to every FieldResult value.         *)
(* DecodeSpec: from_feature / from_layer over a bounded layer.             *)
(***************************************************************************)
EXTENDS Integers, Sequences

VARIABLES
    outcome,    \* the FieldResult<GdalTraitError> a conversion is applied to
    call,       \* the last conversion applied: [op, ty]
    ret,        \* what that conversion returned
    target,     \* the implementor of FeatureTrait in use: "tests" or "example"
    schema,     \* the layer definition: the column names, by column index
    features,   \* the layer's features, in iteration order
    pc,         \* from_layer: "idle", "iterating", "done" or "panic"
    field_ids,  \* from_layer's field_ids: one Result<usize, GdalError> per FIELDS entry
    lookups,    \* how often from_layer asked the layer definition for each FIELDS entry
    fetched,    \* how many features the iterator of from_layer has handed out
    reads,      \* the constructor invocations of from_layer: <<[feature, fields, res]>>
    acc,        \* the Vec being collected by from_layer
    result,     \* what from_layer returned
    single      \* the last from_feature call: [feature, fields, res]

convVars == <<outcome, call, ret>>
decodeVars == <<target, schema, features, pc, field_ids, lookups, fetched, reads, acc, result, single>>
vars == <<outcome, call, ret, target, schema, features, pc, field_ids, lookups, fetched, reads,
          acc, result, single>>

-----------------------------------------------------------------------------
(* Bounds *)

MaxPayload == 2
MaxFeatures == 2

-----------------------------------------------------------------------------
(* gdal::vector::FieldValue: a tag and a payload.  The ten tags the        *)
(* try_into! instances match on.                                           *)

Tags ==
    {"IntegerValue", "IntegerListValue", "Integer64Value", "Integer64ListValue",
     "StringValue", "StringListValue", "RealValue", "RealListValue",
     "DateValue", "DateTimeValue"}

Payloads == 1..MaxPayload

NoValue == [tag |-> "none", val |-> 0]

FieldValue(tag, val) == [tag |-> tag, val |-> val]

FieldValues == {FieldValue(t, p) : t \in Tags, p \in Payloads}

(* gdal::errors::GdalError, as far as this crate tells its values apart:   *)
(* what failed and for which field name.                                   *)
NoGdalError == [cause |-> "none", field |-> ""]

GdalError(cause, field) == [cause |-> cause, field |-> field]

(* GdalTraitError (lib.rs) *)
NoError == [kind |-> "none", gdal |-> NoGdalError, value |-> NoValue, text |-> ""]

GdalTraitError_GdalError(e) ==
    [kind |-> "GdalError", gdal |-> e, value |-> NoValue, text |-> ""]

NullField == [kind |-> "NullField", gdal |-> NoGdalError, value |-> NoValue, text |-> ""]

InvalidFieldValue(fv, text) ==
    [kind |-> "InvalidFieldValue", gdal |-> NoGdalError, value |-> fv, text |-> text]

InvalidGeometry ==
    [kind |-> "InvalidGeometry", gdal |-> NoGdalError, value |-> NoValue, text |-> ""]

(* FieldResult<E> *)
FieldResult_Some(fv) == [t |-> "Some", v |-> fv, e |-> NoError]

FieldResult_Null == [t |-> "Null", v |-> NoValue, e |-> NoError]

FieldResult_Error(e) == [t |-> "Error", v |-> NoValue, e |-> e]

(* Result<_, _> and Option<_> *)
Ok(v) == [ok |-> TRUE, val |-> v, err |-> NoError]

Err(e) == [ok |-> FALSE, val |-> NoValue, err |-> e]

Some(v) == [some |-> TRUE, v |-> v]

None == [some |-> FALSE, v |-> NoValue]

-----------------------------------------------------------------------------
(* The conversions of FieldResult *)

(* impl From<Result<Option<FieldValue>, GdalError>> for FieldResult.  The  *)
(* raw fetch is [ok, val: Option<FieldValue>, gdal: GdalError].            *)
from(value) ==
    IF value.ok
    THEN IF value.val.some THEN FieldResult_Some(value.val.v) ELSE FieldResult_Null
    ELSE FieldResult_Error(GdalTraitError_GdalError(value.gdal))

into_opt_res(self) ==
    CASE self.t = "Some" -> Ok(Some(self.v))
      [] self.t = "Null" -> Ok(None)
      [] self.t = "Error" -> Err(self.e)

into_res_MutNullInvalid(self) ==
    CASE self.t = "Some" -> Ok(self.v)
      [] self.t = "Null" -> Err(InvalidFieldValue(NoValue, "null"))
      [] self.t = "Error" -> Err(self.e)

into_res_MutErrIsNull(self) ==
    CASE self.t = "Some" -> Ok(self.v)
      [] self.t = "Null" -> Err(NullField)
      [] self.t = "Error" -> Err(NullField)

into_res(self) ==
    CASE self.t = "Some" -> Ok(self.v)
      [] self.t = "Null" -> Err(NullField)
      [] self.t = "Error" -> Err(self.e)

(* The instances of try_into!: the method-name suffix and the FieldValue   *)
(* variant each one matches.                                               *)
TypeNames ==
    {"int", "int_list", "int64", "int64_list", "string", "string_list",
     "real", "real_list", "date", "date_time"}

fval(name) ==
    CASE name = "int" -> "IntegerValue"
      [] name = "int_list" -> "IntegerListValue"
      [] name = "int64" -> "Integer64Value"
      [] name = "int64_list" -> "Integer64ListValue"
      [] name = "string" -> "StringValue"
      [] name = "string_list" -> "StringListValue"
      [] name = "real" -> "RealValue"
      [] name = "real_list" -> "RealListValue"
      [] name = "date" -> "DateValue"
      [] name = "date_time" -> "DateTimeValue"

try_into_MutCoerce(name, self) ==
    LET r == into_res(self) IN
    IF ~r.ok THEN Err(r.err) ELSE Ok(r.val.val)

(* try_into_<name>: `self.to_owned().into_res()?`, then the let-else on    *)
(* the variant.  The message formats self and the literal "$ty".           *)
try_into(name, self) ==
    LET r == into_res(self) IN
    IF ~r.ok THEN Err(r.err)
    ELSE IF r.val.tag = fval(name)
         THEN Ok(r.val.val)
         ELSE Err(InvalidFieldValue(self.v, "into a $ty"))

try_into_opt_MutMismatchNone(name, self) ==
    LET r == into_opt_res(self) IN
    IF ~r.ok THEN Err(r.err)
    ELSE IF r.val.some
         THEN IF r.val.v.tag = fval(name) THEN Ok(Some(r.val.v.val)) ELSE Ok(None)
         ELSE Ok(None)

(* try_into_<name>_opt *)
try_into_opt(name, self) ==
    LET r == into_opt_res(self) IN
    IF ~r.ok THEN Err(r.err)
    ELSE IF r.val.some
         THEN IF r.val.v.tag = fval(name)
              THEN Ok(Some(r.val.v.val))
              ELSE Err(InvalidFieldValue(self.v, "into an Option<$ty>"))
         ELSE Ok(None)

-----------------------------------------------------------------------------
(* ConvSpec: every conversion applied to every FieldResult value.          *)

(* The GdalError values the model tells apart. *)
GdalErrors ==
    {GdalError("InvalidFieldName", "NAME"), GdalError("InvalidFieldName", "POP_EST"),
     GdalError("field", "")}

(* The GdalTraitError values a FieldResult::Error may wrap: Error(E) is a  *)
(* public variant over the whole enum.                                     *)
TraitErrors ==
    {GdalTraitError_GdalError(e) : e \in GdalErrors}
        \cup {NullField, InvalidGeometry, InvalidFieldValue(FieldValue("RealValue", 1), "into a $ty")}

FieldResults ==
    {FieldResult_Some(fv) : fv \in FieldValues}
        \cup {FieldResult_Null}
        \cup {FieldResult_Error(e) : e \in TraitErrors}

(* Result<Option<FieldValue>, GdalError>, what Feature::field returns *)
FetchOk(opt) == [ok |-> TRUE, val |-> opt, gdal |-> NoGdalError]

FetchErr(e) == [ok |-> FALSE, val |-> None, gdal |-> e]

RawFetches ==
    {FetchOk(Some(fv)) : fv \in FieldValues} \cup {FetchOk(None)}
        \cup {FetchErr(e) : e \in GdalErrors}

NoCall == [op |-> "none", ty |-> ""]

NoRet == [ok |-> FALSE, val |-> NoValue, err |-> NoError]

DecodeIdle ==
    /\ target = "none"
    /\ schema = <<>>
    /\ features = <<>>
    /\ pc = "off"
    /\ field_ids = <<>>
    /\ lookups = <<>>
    /\ fetched = 0
    /\ reads = <<>>
    /\ acc = <<>>
    /\ result = NoRet
    /\ single = <<>>

ConvInit ==
    /\ outcome \in FieldResults
    /\ call = NoCall
    /\ ret = NoRet
    /\ DecodeIdle

From ==
    /\ \E raw \in RawFetches : outcome' = from(raw)
    /\ call' = NoCall
    /\ ret' = NoRet
    /\ UNCHANGED decodeVars

IntoRes ==
    /\ call' = [op |-> "into_res", ty |-> ""]
    /\ ret' = into_res(outcome)
    /\ UNCHANGED <<outcome, decodeVars>>

IntoOptRes ==
    /\ call' = [op |-> "into_opt_res", ty |-> ""]
    /\ ret' = into_opt_res(outcome)
    /\ UNCHANGED <<outcome, decodeVars>>

TryInto ==
    /\ \E name \in TypeNames :
        /\ call' = [op |-> "try_into", ty |-> name]
        /\ ret' = try_into(name, outcome)
    /\ UNCHANGED <<outcome, decodeVars>>

TryIntoOpt ==
    /\ \E name \in TypeNames :
        /\ call' = [op |-> "try_into_opt", ty |-> name]
        /\ ret' = try_into_opt(name, outcome)
    /\ UNCHANGED <<outcome, decodeVars>>

ConvNext == From \/ IntoRes \/ IntoOptRes \/ TryInto \/ TryIntoOpt

ConvSpec == ConvInit /\ [][ConvNext]_vars

-----------------------------------------------------------------------------
(* FeatureTrait and its two implementors in the repository, the Country   *)
(* of the crate's tests and the Country of examples/from_layer.rs, both    *)
(* restricted to the fields NAME and POP_EST.                              *)

FIELDS == <<"NAME", "POP_EST">>

NUM_FIELDS == Len(FIELDS)

Targets == {"tests", "example"}

(* Option<u64>, Option<&Geometry>, Option<f64>: a geometry is named by a   *)
(* number.                                                                 *)
SomeInt(n) == [some |-> TRUE, v |-> n]

NoneInt == [some |-> FALSE, v |-> 0]

(* The error type E: TestError / CountryError, with From<GdalTraitError>. *)
NoTestError == [kind |-> "none", inner |-> NoError]

E_GdalTraitError(e) == [kind |-> "GdalTraitError", inner |-> e]

E_NoGeometry == [kind |-> "NoGeometry", inner |-> NoError]

E_NoFID == [kind |-> "NoFID", inner |-> NoError]

(* Country: the tests' has no id and a plain pop_est (held as Some). *)
NoCountry == [id |-> NoneInt, name |-> 0, pop_est |-> NoneInt, geom |-> 0]

NoRes == [ok |-> FALSE, val |-> NoCountry, err |-> NoTestError]

OkE(v) == [ok |-> TRUE, val |-> v, err |-> NoTestError]

ErrE(e) == [ok |-> FALSE, val |-> NoCountry, err |-> e]

(* Country::read of the tests: each `?` returns the first failure; to_geo  *)
(* is taken to succeed on every geometry.                                  *)
read_tests(fid, fields, geometry) ==
    LET name == try_into("string", fields[1])
        pop_est == try_into("real", fields[2])
    IN  IF ~name.ok THEN ErrE(E_GdalTraitError(name.err))
        ELSE IF ~pop_est.ok THEN ErrE(E_GdalTraitError(pop_est.err))
        ELSE IF ~geometry.some THEN ErrE(E_NoGeometry)
        ELSE OkE([id |-> NoneInt, name |-> name.val, pop_est |-> SomeInt(pop_est.val),
                  geom |-> geometry.v])

(* Country::read of the example: the name through into_res and a let-else  *)
(* (whose else returns NoGeometry), an optional pop_est, a required fid.   *)
read_example(fid, fields, geometry) ==
    LET name == into_res(fields[1])
        pop_est == try_into_opt("real", fields[2])
    IN  IF ~name.ok THEN ErrE(E_GdalTraitError(name.err))
        ELSE IF name.val.tag # "StringValue" THEN ErrE(E_NoGeometry)
        ELSE IF ~pop_est.ok THEN ErrE(E_GdalTraitError(pop_est.err))
        ELSE IF ~geometry.some THEN ErrE(E_NoGeometry)
        ELSE IF ~fid.some THEN ErrE(E_NoFID)
        ELSE OkE([id |-> fid, name |-> name.val.val,
                  pop_est |-> IF pop_est.val.some THEN SomeInt(pop_est.val.v) ELSE NoneInt,
                  geom |-> geometry.v])

(* FeatureTrait::read, dispatched on the implementing type *)
read(self, fid, fields, geometry) ==
    IF self = "tests"
    THEN read_tests(fid, fields, geometry)
    ELSE read_example(fid, fields, geometry)

(* Column lookup by name, Feature::field_index and Defn::field_index: the  *)
(* column's index, or the source's error for that name.                    *)
field_index(defn, fname) ==
    IF \E c \in 1..Len(defn) : defn[c] = fname
    THEN [ok |-> TRUE, idx |-> CHOOSE c \in 1..Len(defn) : defn[c] = fname,
          gdal |-> NoGdalError]
    ELSE [ok |-> FALSE, idx |-> 0, gdal |-> GdalError("InvalidFieldName", fname)]

(* Feature::field(index): the raw fetch of one column of one feature. *)
field(feature, index) == feature.cells[index]

(* `.collect::<Vec<_>>().try_into().unwrap()`: panics unless the Vec has   *)
(* exactly N entries.                                                      *)
try_into_array(vec) == [panic |-> Len(vec) # NUM_FIELDS, fields |-> vec]

feature_fields_MutAbortOnError(defn, feature) ==
    LET idx(i) == field_index(defn, FIELDS[i])
        bad == {i \in 1..NUM_FIELDS : ~idx(i).ok}
    IN  [i \in 1..NUM_FIELDS |->
            IF bad # {}
            THEN FieldResult_Error(GdalTraitError_GdalError(idx(CHOOSE b \in bad : TRUE).gdal))
            ELSE from(field(feature, idx(i).idx))]

(* from_feature, the two maps over FIELDS: resolve each name on the        *)
(* feature, then fetch by index or keep the resolution error.              *)
feature_fields(defn, feature) ==
    [i \in 1..NUM_FIELDS |->
        LET index == field_index(defn, FIELDS[i])
        IN  IF index.ok
            THEN from(field(feature, index.idx))
            ELSE FieldResult_Error(GdalTraitError_GdalError(index.gdal))]

(* from_feature *)
from_feature(self, defn, feature) ==
    LET arr == try_into_array(feature_fields(defn, feature))
    IN  [panic |-> arr.panic,
         fields |-> arr.fields,
         res |-> IF arr.panic THEN NoRes
                 ELSE read(self, feature.fid, arr.fields, feature.geometry)]

resolve_field_ids_MutPositional(defn) ==
    [i \in 1..NUM_FIELDS |->
        IF i <= Len(defn)
        THEN [ok |-> TRUE, idx |-> i, gdal |-> NoGdalError]
        ELSE [ok |-> FALSE, idx |-> 0, gdal |-> GdalError("InvalidFieldName", FIELDS[i])]]

(* from_layer, the first statement: field_ids, one lookup per name on the  *)
(* layer's definition.                                                     *)
resolve_field_ids(defn) ==
    [i \in 1..NUM_FIELDS |-> field_index(defn, FIELDS[i])]

layer_field_MutErrNull(index, feature) ==
    IF index.ok THEN from(field(feature, index.idx)) ELSE FieldResult_Null

(* from_layer, the closure over field_ids: fetch by the precomputed index, *)
(* or clone the resolution error.                                          *)
layer_field(index, feature) ==
    IF index.ok
    THEN from(field(feature, index.idx))
    ELSE FieldResult_Error(GdalTraitError_GdalError(index.gdal))

layer_fields_MutDropErrors(ids, feature) ==
    LET all == [i \in 1..Len(ids) |-> layer_field(ids[i], feature)]
    IN  SelectSeq(all, LAMBDA f : f.t # "Error")

(* from_layer, `field_ids.iter().map(..).collect::<Vec<_>>()` *)
layer_fields(ids, feature) ==
    [i \in 1..Len(ids) |-> layer_field(ids[i], feature)]

collect_MutSkipFailed(vec, r) ==
    IF r.ok
    THEN [done |-> FALSE, acc |-> Append(vec, r.val), result |-> NoRes]
    ELSE [done |-> FALSE, acc |-> vec, result |-> NoRes]

collect_MutPrepend(vec, r) ==
    IF r.ok
    THEN [done |-> FALSE, acc |-> <<r.val>> \o vec, result |-> NoRes]
    ELSE [done |-> TRUE, acc |-> <<>>, result |-> ErrE(r.err)]

(* `.collect::<Result<Vec<Self>, E>>()`, one item: an Ok is pushed, the    *)
(* first Err ends the iteration, drops the Vec and is the result.          *)
collect(vec, r) ==
    IF r.ok
    THEN [done |-> FALSE, acc |-> Append(vec, r.val), result |-> NoRes]
    ELSE [done |-> TRUE, acc |-> <<>>, result |-> ErrE(r.err)]

-----------------------------------------------------------------------------
(* DecodeSpec: a layer with at most MaxFeatures features, decoded whole by *)
(* from_layer and feature by feature by from_feature.                      *)

Schemas ==
    {<<>>, <<"NAME">>, <<"POP_EST">>, <<"NAME", "POP_EST">>, <<"POP_EST", "NAME">>}

(* The fixture's columns are typed: NAME is a string column, POP_EST a     *)
(* real one.  A fetch yields a value of the column's type, NULL, or fails. *)
ColumnTag(col) == IF col = "NAME" THEN "StringValue" ELSE "RealValue"

CellValues(col) ==
    {FetchOk(Some(FieldValue(ColumnTag(col), 1))), FetchOk(None),
     FetchErr(GdalError("field", ""))}

Rows(defn) ==
    {cells \in [1..Len(defn) -> UNION {CellValues(defn[c]) : c \in 1..Len(defn)}] :
        \A c \in 1..Len(defn) : cells[c] \in CellValues(defn[c])}

(* A layer's features: feature i has fid i - 1, its own geometry (or none) *)
(* and one raw fetch per column.                                           *)
Layer(n, cs, geo) ==
    [i \in 1..n |->
        [fid |-> SomeInt(i - 1),
         cells |-> cs[i],
         geometry |-> IF i \in geo THEN SomeInt(i) ELSE NoneInt]]

NoSingle == [feature |-> 0, panic |-> FALSE, fields |-> <<>>, res |-> NoRes]

DecodeInit ==
    /\ outcome = FieldResult_Null
    /\ call = NoCall
    /\ ret = NoRet
    /\ target \in Targets
    /\ schema \in Schemas
    /\ \E n \in 0..MaxFeatures :
        \E cs \in [1..n -> Rows(schema)], geo \in SUBSET (1..n) :
            features = Layer(n, cs, geo)
    /\ pc = "idle"
    /\ field_ids = <<>>
    /\ lookups = [i \in 1..NUM_FIELDS |-> 0]
    /\ fetched = 0
    /\ reads = <<>>
    /\ acc = <<>>
    /\ result = NoRes
    /\ single = NoSingle

(* from_feature on one feature of the layer *)
FromFeature ==
    /\ pc \in {"idle", "done"}
    /\ \E i \in 1..Len(features) :
        LET r == from_feature(target, schema, features[i])
        IN  single' = [feature |-> i, panic |-> r.panic, fields |-> r.fields, res |-> r.res]
    /\ UNCHANGED <<convVars, target, schema, features, pc, field_ids, lookups, fetched, reads, acc,
                   result>>

(* from_layer is entered: the names are resolved on the layer definition *)
Resolve ==
    /\ pc = "idle"
    /\ field_ids' = resolve_field_ids(schema)
    /\ lookups' = [i \in 1..NUM_FIELDS |-> lookups[i] + 1]
    /\ pc' = "iterating"
    /\ UNCHANGED <<convVars, target, schema, features, fetched, reads, acc, result, single>>

(* from_layer, one turn of the iterator chain: the next feature, its       *)
(* fields, read, and the collect.                                          *)
NextFeature ==
    /\ pc = "iterating"
    /\ fetched < Len(features)
    /\ LET feature == features[fetched + 1]
           arr == try_into_array(layer_fields(field_ids, feature))
           r == read(target, feature.fid, arr.fields, feature.geometry)
           c == collect(acc, r)
       IN  /\ fetched' = fetched + 1
           /\ IF arr.panic
              THEN /\ pc' = "panic"
                   /\ UNCHANGED <<reads, acc, result>>
              ELSE /\ reads' = Append(reads, [feature |-> fetched + 1,
                                              fields |-> arr.fields, res |-> r])
                   /\ acc' = c.acc
                   /\ result' = c.result
                   /\ pc' = IF c.done THEN "done" ELSE "iterating"
    /\ UNCHANGED <<convVars, target, schema, features, field_ids, lookups, single>>

(* from_layer, the iterator is exhausted: the collected Vec is returned *)
Exhausted ==
    /\ pc = "iterating"
    /\ fetched = Len(features)
    /\ result' = OkE(acc)
    /\ pc' = "done"
    /\ UNCHANGED <<convVars, target, schema, features, field_ids, lookups, fetched, reads, acc,
                   single>>

DecodeNext == FromFeature \/ Resolve \/ NextFeature \/ Exhausted

DecodeSpec == DecodeInit /\ [][DecodeNext]_vars

-----------------------------------------------------------------------------
(* Claims about the conversions, checked under ConvSpec.                   *)

C2_OptNoneIffNull ==
    call.op = "try_into_opt" =>
        /\ (ret.ok /\ ~ret.val.some) <=> (outcome.t = "Null")
        /\ (outcome.t = "Null") => ret.ok
        /\ (outcome.t = "Error") => (~ret.ok /\ ret.err = outcome.e)

C2_Witness ==
    /\ call.op = "try_into_opt"
    /\ call.ty = "real"
    /\ outcome.t = "Null"
    /\ ret = Ok(None)

(* C3: on a Value outcome whose tag differs from the one T expects, both   *)
(* try_into_<T> and try_into_<T>_opt fail with InvalidFieldValue; when the *)
(* tag matches they return the payload (in Some for the optional one).     *)
C3_TagMismatch ==
    (call.op \in {"try_into", "try_into_opt"} /\ outcome.t = "Some") =>
        IF outcome.v.tag # fval(call.ty)
        THEN ~ret.ok /\ ret.err.kind = "InvalidFieldValue"
        ELSE /\ ret.ok
             /\ (call.op = "try_into") => (ret.val = outcome.v.val)
             /\ (call.op = "try_into_opt") => (ret.val = Some(outcome.v.val))

C3_Witness ==
    /\ call = [op |-> "try_into", ty |-> "int"]
    /\ outcome = FieldResult_Some(FieldValue("StringValue", 1))
    /\ ~ret.ok
    /\ ret.err.kind = "InvalidFieldValue"

(* C4, as stated: try_into_<T> on a Null outcome fails with an error of    *)
(* kind InvalidFieldValue.                                                 *)
C4_AsStated ==
    (call.op = "try_into" /\ outcome.t = "Null") =>
        (~ret.ok /\ ret.err.kind = "InvalidFieldValue")

(* C4, amended: try_into_<T> on a Null outcome fails with NullField.       *)
C4_NullIsNullField ==
    (call.op = "try_into" /\ outcome.t = "Null") => (ret = Err(NullField))

C4_Witness ==
    /\ call.op = "try_into"
    /\ call.ty = "string"
    /\ outcome.t = "Null"
    /\ ~ret.ok
    /\ ret.err.kind = "NullField"

-----------------------------------------------------------------------------
(* Claims about decoding, checked under DecodeSpec.                        *)

Resolvable(fname) == \E c \in 1..Len(schema) : schema[c] = fname

ColumnOf(fname) == CHOOSE c \in 1..Len(schema) : schema[c] = fname

(* The outcome of retrieving the field named fname from a feature. *)
OutcomeOf(feature, fname) ==
    IF ~Resolvable(fname)
    THEN FieldResult_Error(GdalTraitError_GdalError(GdalError("InvalidFieldName", fname)))
    ELSE LET raw == feature.cells[ColumnOf(fname)]
         IN  CASE ~raw.ok -> FieldResult_Error(GdalTraitError_GdalError(raw.gdal))
               [] raw.ok /\ ~raw.val.some -> FieldResult_Null
               [] raw.ok /\ raw.val.some -> FieldResult_Some(raw.val.v)

(* The constructor's result for feature i of the layer. *)
Constructed(i) ==
    read(target, features[i].fid,
         [j \in 1..NUM_FIELDS |-> OutcomeOf(features[i], FIELDS[j])],
         features[i].geometry)

Failing == {i \in 1..Len(features) : ~Constructed(i).ok}

FirstOf(S) == CHOOSE k \in S : \A j \in S : k <= j

(* C5: from_layer is fail-fast and all-or-nothing: with k the first        *)
(* feature whose constructor fails, it returns exactly that error and no   *)
(* collection, and fetches and constructs nothing after k; if no feature   *)
(* fails it returns a collection.                                          *)
C5_FailFast ==
    (pc = "done") =>
        IF Failing = {}
        THEN result.ok
        ELSE LET k == FirstOf(Failing)
             IN  /\ ~result.ok
                 /\ result.err = Constructed(k).err
                 /\ acc = <<>>
                 /\ fetched = k
                 /\ Len(reads) = k
                 /\ \A e \in 1..Len(reads) : reads[e].feature <= k

C5_Witness ==
    /\ pc = "done"
    /\ ~result.ok
    /\ Len(features) = 2
    /\ fetched = 1
    /\ Len(reads) = 1

(* C6: when from_layer succeeds over features r1..rn the collection has    *)
(* exactly n elements and its i-th is the constructor's result for ri.     *)
C6_OrderPreserved ==
    (pc = "done" /\ result.ok) =>
        /\ Len(result.val) = Len(features)
        /\ Len(reads) = Len(features)
        /\ \A i \in 1..Len(features) :
            /\ reads[i].feature = i
            /\ result.val[i] = reads[i].res.val
            /\ result.val[i] = Constructed(i).val

C6_Witness ==
    /\ pc = "done"
    /\ result.ok
    /\ Len(features) = 2
    /\ Len(result.val) = 2
    /\ result.val[1] # result.val[2]
    /\ result.val[1].geom = 1

RetrievalFails(feature, i) ==
    \/ ~Resolvable(FIELDS[i])
    \/ ~feature.cells[ColumnOf(FIELDS[i])].ok

(* One constructor invocation: Errors sit exactly at the indices whose     *)
(* retrieval failed, every other field was fetched, and the decode's       *)
(* outcome is the constructor's.                                           *)
Deferred(entry) ==
    LET feature == features[entry.feature]
    IN  /\ \A i \in 1..NUM_FIELDS :
            (entry.fields[i].t = "Error") <=> RetrievalFails(feature, i)
        /\ \A i \in 1..NUM_FIELDS :
            ~RetrievalFails(feature, i) =>
                entry.fields[i] = from(feature.cells[ColumnOf(FIELDS[i])])
        /\ entry.res = read(target, feature.fid, entry.fields, feature.geometry)

(* C8: in from_feature and in from_layer a failed resolution or fetch      *)
(* yields an Error only at that field's index, the other fields are still  *)
(* retrieved and the constructor is still invoked; the decode of a feature *)
(* fails only if the constructor returns an error.                         *)
C8_FieldFailuresDeferred ==
    /\ pc # "panic"
    /\ ~single.panic
    /\ Len(reads) = fetched
    /\ \A e \in 1..Len(reads) : reads[e].feature = e /\ Deferred(reads[e])
    /\ (single.feature # 0) => Deferred(single)
    /\ (pc = "done" /\ ~result.ok) =>
        (~reads[fetched].res.ok /\ result.err = reads[fetched].res.err)

C8_Witness ==
    /\ target = "example"
    /\ schema = <<"POP_EST", "NAME">>
    /\ single.feature = 1
    /\ single.fields[1].t = "Error"
    /\ single.fields[2].t = "Null"
    /\ Len(reads) = 1
    /\ reads[1].fields[1].t = "Error"
    /\ reads[1].fields[2].t = "Null"
    /\ ~reads[1].res.ok

(* C9: the outcome array handed to the constructor, by either entry point, *)
(* has exactly NUM_FIELDS entries, entry i being the outcome of retrieving *)
(* FIELDS[i] whatever the other entries are; building it never panics.     *)
C9_ArrayMatchesFIELDS ==
    /\ pc # "panic"
    /\ ~single.panic
    /\ \A e \in 1..Len(reads) :
        /\ Len(reads[e].fields) = NUM_FIELDS
        /\ \A i \in 1..NUM_FIELDS :
            reads[e].fields[i] = OutcomeOf(features[reads[e].feature], FIELDS[i])
    /\ (single.feature # 0) =>
        /\ Len(single.fields) = NUM_FIELDS
        /\ \A i \in 1..NUM_FIELDS :
            single.fields[i] = OutcomeOf(features[single.feature], FIELDS[i])

C9_Witness ==
    /\ schema = <<"POP_EST">>
    /\ Len(reads) = 1
    /\ Len(reads[1].fields) = 2
    /\ reads[1].fields[1].t = "Error"
    /\ reads[1].fields[2].t = "Null"
    /\ single.feature = 1
    /\ Len(single.fields) = 2

One(i) == from_feature(target, schema, features[i]).res

FailingOne == {i \in 1..Len(features) : ~One(i).ok}

(* C10: from_layer and from_feature agree: a successful from_layer returns *)
(* at i what from_feature returns for feature i, and from_layer fails      *)
(* exactly when from_feature fails for some feature, with the error of the *)
(* first such feature.                                                     *)
C10_SingleAndBatchAgree ==
    (pc = "done") =>
        /\ result.ok <=> (FailingOne = {})
        /\ result.ok =>
            /\ Len(result.val) = Len(features)
            /\ \A i \in 1..Len(features) : result.val[i] = One(i).val
            /\ (single.feature # 0) =>
                (single.res.ok /\ result.val[single.feature] = single.res.val)
        /\ ~result.ok =>
            /\ result.err = One(FirstOf(FailingOne)).err
            /\ (single.feature = FirstOf(FailingOne)) => (single.res = ErrE(result.err))

C10_Witness ==
    /\ pc = "done"
    /\ schema = <<"POP_EST", "NAME">>
    /\ result.ok
    /\ Len(result.val) = 2
    /\ single.feature = 2
    /\ single.res.ok
    /\ result.val[2] = single.res.val

====
